---- MODULE Spec2Model ----
(***************************************************************************)
(* State-machine model of the smart-sprayer scripts:                       *)
(*   "raspi" : src/raspi_smart_sprayer.py                                  *)
(*   "car"   : the motor-car script, src/cc.py lines 1-169                 *)
(*   "smart" : the plant-selecting sprayer, src/cc.py lines 172-378        *)
(* One behaviour of the model is one run of one of the three scripts       *)
(* (variable app).  Requests are numbered in their order of arrival.       *)
(***************************************************************************)
EXTENDS Integers, FiniteSets, Sequences

\* Number of /spray requests of one run.
MaxReq == 2

Req == 1..MaxReq

\* src/raspi_smart_sprayer.py:53 and src/cc.py:192
PUMP_ACTIVE_HIGH == TRUE

ActiveLevel == IF PUMP_ACTIVE_HIGH THEN "HIGH" ELSE "LOW"

InactiveLevel == IF PUMP_ACTIVE_HIGH THEN "LOW" ELSE "HIGH"

\* The durations a client posts to /spray of raspi_smart_sprayer.py: the UI's
\* 5 and a negative one, for which time.sleep raises ValueError.
Durations == {-1, 5}

\* time.sleep(duration) raises ValueError for a negative duration.
SleepRaises(d) == d < 0

\* latest_frame = None / current_frame = None: nothing published yet.
NoFrame == 0

\* The frames the video source can deliver.  A frame is known to the model by
\* what the classifiers compute from it: the fraction of its pixels in the
\* brown/yellow HSV band (in 1/10000 of the frame: 10 is 0.1 %, 900 is 9 %),
\* and the model's arg-max class and its probability (in 1/10000).
FrameCover == <<10, 100, 500, 900>>

FrameClass == <<0, 1, 1, 2>>

FrameProb == <<9000, 4000, 8000, 9500>>

Frames == 1..Len(FrameCover)

\* The plant a session carries in cc.py: none selected (""), a key of
\* PLANT_MODELS, or a posted value that is no key of PLANT_MODELS.
SessionPlants == {"", "wheat", "tomato"}

PLANT_MODELS == {"wheat", "rice", "cotton"}

NoResult == [kind |-> "none", label |-> "", conf |-> 0, sev |-> "", by |-> ""]

\* Number of concurrent callers of get_frame (MJPEG clients, /detect requests).
MaxCallers == 2

Callers == 1..MaxCallers

\* The camera thread as a holder of frame_lock.
CameraId == MaxCallers + 1

\* The inputs on which the classifiers are exercised on their own: the model's
\* arg-max class, its probability and the cover fraction (both in 1/10000),
\* with every threshold of the code, its neighbours and the two ends.
ClassIdx == 0..2

ConfValues ==
  {c \in 0..10000 : c % 1000 = 0} \cup {4999, 5001, 5999, 6001, 7999, 8001, 9999}

CoverValues ==
  {0, 1, 10, 29, 30, 31, 100, 179, 180, 181, 199, 200, 201, 500, 799, 800, 801,
   900, 1979, 1980, 1981, 5000, 10000}

Samples == [idx : ClassIdx, conf : ConfValues, cover : CoverValues]

NoSample == [idx |-> 0, conf |-> 0, cover |-> 0]

NoVerdict == [kind |-> "none", keras |-> "", plant |-> "", heur |-> NoResult]

VARIABLES
  app,            \* which script runs
  gpio,           \* USE_GPIO / RPI_ENV: RPi.GPIO could be imported
  keras_model,    \* a model could be loaded (model.h5 / models/<plant>_model.h5)
  shut,           \* position of the main thread: serving ("up") or in its shutdown code
  pin,            \* level of the pump pin ("INPUT": released by GPIO.cleanup())
  pump_lock,      \* holder of pump_lock (0: free)
  hpc,            \* hpc[r]: position of the handler of /spray request r
  tpc,            \* tpc[r]: position of the pump thread started for request r
  dur,            \* dur[r]: the duration request r asks for
  response,       \* response[r]: what the handler returned
  lockedAtCall,   \* lockedAtCall[r]: pump_lock was held when r was handled
  pendingAtCall,  \* pendingAtCall[r]: requests whose thread waited for pump_lock when r was handled
  completed,      \* number of finished drive sequences
  cam,            \* position of CameraThread.run
  running,        \* raspi_smart_sprayer.py: running
  video,          \* the video source handle: "closed", "open", "failed" or "released"
  camFrame,       \* the frame cap.read() returned, not yet published
  latest_frame,   \* raspi_smart_sprayer.py: latest_frame
  current_frame,  \* cc.py: current_frame
  analysis_result,\* cc.py: analysis_result
  lastDetect,     \* what the most recent /detect or /check returned
  frame_lock,     \* holder of frame_lock: a caller of get_frame or CameraId (0: free)
  gpc,            \* gpc[k]: position of client k in get_frame, or in its read of the video source (cc.py)
  gcopy,          \* gcopy[k]: the two halves of the copy caller k is taking
  sample,         \* the input the classifiers are applied to on their own
  verdict         \* what they computed for it

pumpVars == <<pin, pump_lock, hpc, tpc, dur, response, lockedAtCall, pendingAtCall, completed>>

frameVars == <<cam, running, video, camFrame, latest_frame, current_frame>>

detectVars == <<analysis_result, lastDetect>>

classifyVars == <<sample, verdict>>

readerVars == <<frame_lock, gpc, gcopy>>

\* What the /spray, /detect and /check handlers, the pump threads and the
\* camera thread leave alone.
envVars == <<app, gpio, keras_model, shut, classifyVars, readerVars>>

vars == <<envVars, pumpVars, frameVars, detectVars>>

InitBase ==
  /\ gpio \in (IF app = "car" THEN {TRUE} ELSE BOOLEAN)
  /\ keras_model \in (IF app = "car" THEN {FALSE} ELSE BOOLEAN)
  /\ shut = "up"
  /\ pin = InactiveLevel
  /\ pump_lock = 0
  /\ hpc = [r \in Req |-> "none"]
  /\ tpc = [r \in Req |-> "none"]
  /\ dur = [r \in Req |-> 0]
  /\ response = [r \in Req |-> "none"]
  /\ lockedAtCall = [r \in Req |-> FALSE]
  /\ pendingAtCall = [r \in Req |-> {}]
  /\ completed = 0
  /\ cam = IF app = "raspi" THEN "open" ELSE "none"
  /\ running = TRUE
  /\ video = IF app = "raspi" THEN "closed" ELSE "open"
  /\ camFrame = NoFrame
  /\ latest_frame = NoFrame
  /\ current_frame = NoFrame
  /\ analysis_result = NoResult
  /\ lastDetect = NoResult
  /\ frame_lock = 0
  /\ gpc = [k \in Callers |-> "idle"]
  /\ gcopy = [k \in Callers |-> <<NoFrame, NoFrame>>]
  /\ verdict = NoVerdict

Init ==
  /\ app \in {"raspi", "car", "smart"}
  /\ sample = NoSample
  /\ InitBase

\* Requests arrive in the order of their numbers, while app.run serves.
Arrives(r) ==
  /\ shut = "up"
  /\ hpc[r] = "none"
  /\ (IF r = 1 THEN TRUE ELSE hpc[r - 1] # "none")

(***************************************************************************)
(* raspi_smart_sprayer.py: /spray and activate_pump                        *)
(***************************************************************************)

\* spray, lines 356-357 raising: the body is no JSON object, or its duration
\* is no number.  Flask answers with an error; no thread is started.
SprayBadBody(r) ==
  /\ app = "raspi"
  /\ Arrives(r)
  /\ hpc' = [hpc EXCEPT ![r] = "returned"]
  /\ response' = [response EXCEPT ![r] = "error"]
  /\ UNCHANGED <<pin, pump_lock, tpc, dur, lockedAtCall, pendingAtCall, completed>>
  /\ UNCHANGED <<envVars, frameVars, detectVars>>

\* A variant of Spray that creates the thread and never starts it.
Spray_NoStart(r, d) ==
  /\ app = "raspi"
  /\ Arrives(r)
  /\ hpc' = [hpc EXCEPT ![r] = "started"]
  /\ dur' = [dur EXCEPT ![r] = d]
  /\ lockedAtCall' = [lockedAtCall EXCEPT ![r] = (pump_lock # 0)]
  /\ pendingAtCall' = [pendingAtCall EXCEPT ![r] = {q \in Req : tpc[q] = "wait_lock"}]
  /\ UNCHANGED <<pin, pump_lock, tpc, response, completed>>
  /\ UNCHANGED <<envVars, frameVars, detectVars>>

\* spray, lines 356-360: the thread running activate_pump(duration) is started.
Spray(r, d) ==
  /\ app = "raspi"
  /\ Arrives(r)
  /\ hpc' = [hpc EXCEPT ![r] = "started"]
  /\ tpc' = [tpc EXCEPT ![r] = "wait_lock"]
  /\ dur' = [dur EXCEPT ![r] = d]
  /\ lockedAtCall' = [lockedAtCall EXCEPT ![r] = (pump_lock # 0)]
  /\ pendingAtCall' = [pendingAtCall EXCEPT ![r] = {q \in Req : tpc[q] = "wait_lock"}]
  /\ UNCHANGED <<pin, pump_lock, response, completed>>
  /\ UNCHANGED <<envVars, frameVars, detectVars>>

\* spray, line 361.
SprayReturn(r) ==
  /\ app = "raspi"
  /\ hpc[r] = "started"
  /\ hpc' = [hpc EXCEPT ![r] = "returned"]
  /\ response' = [response EXCEPT ![r] = "activated"]
  /\ UNCHANGED <<pin, pump_lock, tpc, dur, lockedAtCall, pendingAtCall, completed>>
  /\ UNCHANGED <<envVars, frameVars, detectVars>>

\* A variant of Acquire that enters without taking pump_lock free.
Acquire_NoWait(r) ==
  /\ app = "raspi"
  /\ tpc[r] = "wait_lock"
  /\ pump_lock' = r
  /\ tpc' = [tpc EXCEPT ![r] = "locked"]
  /\ UNCHANGED <<pin, hpc, dur, response, lockedAtCall, pendingAtCall, completed>>
  /\ UNCHANGED <<envVars, frameVars, detectVars>>

\* activate_pump, line 203: "with pump_lock" blocks until the lock is free.
Acquire(r) ==
  /\ app = "raspi"
  /\ tpc[r] = "wait_lock"
  /\ pump_lock = 0
  /\ pump_lock' = r
  /\ tpc' = [tpc EXCEPT ![r] = "locked"]
  /\ UNCHANGED <<pin, hpc, dur, response, lockedAtCall, pendingAtCall, completed>>
  /\ UNCHANGED <<envVars, frameVars, detectVars>>

\* activate_pump, lines 204-209 (the pin is driven to its active level) or,
\* without RPi.GPIO, lines 218-219 (the simulation prints).  After
\* GPIO.cleanup() GPIO.output raises, in the try and again in the finally
\* block, and the exception leaves the with block.
AssertPin(r) ==
  /\ app = "raspi"
  /\ tpc[r] = "locked"
  /\ IF gpio
       THEN IF pin = "INPUT"
              THEN pin' = pin /\ tpc' = [tpc EXCEPT ![r] = "release"]
              ELSE pin' = ActiveLevel /\ tpc' = [tpc EXCEPT ![r] = "hold"]
       ELSE pin' = pin /\ tpc' = [tpc EXCEPT ![r] = "sim_hold"]
  /\ UNCHANGED <<pump_lock, hpc, dur, response, lockedAtCall, pendingAtCall, completed>>
  /\ UNCHANGED <<envVars, frameVars, detectVars>>

\* A variant of HoldEnd without the try/finally: an exception of the hold
\* leaves the with block at once.
HoldEnd_NoFinally(r) ==
  /\ app = "raspi"
  /\ tpc[r] = "hold"
  /\ tpc' = [tpc EXCEPT ![r] = IF SleepRaises(dur[r]) THEN "release" ELSE "finally"]
  /\ UNCHANGED <<pin, pump_lock, hpc, dur, response, lockedAtCall, pendingAtCall, completed>>
  /\ UNCHANGED <<envVars, frameVars, detectVars>>

\* activate_pump, line 210 inside try: time.sleep(duration) returns or raises;
\* either way control goes to the finally block.
HoldEnd(r) ==
  /\ app = "raspi"
  /\ tpc[r] = "hold"
  /\ tpc' = [tpc EXCEPT ![r] = "finally"]
  /\ UNCHANGED <<pin, pump_lock, hpc, dur, response, lockedAtCall, pendingAtCall, completed>>
  /\ UNCHANGED <<envVars, frameVars, detectVars>>

\* A variant of Deassert whose finally block does not write the pin.
Deassert_LeavesPin(r) ==
  /\ app = "raspi"
  /\ tpc[r] = "finally"
  /\ tpc' = [tpc EXCEPT ![r] = "release"]
  /\ completed' = IF pin = "INPUT" THEN completed ELSE completed + 1
  /\ UNCHANGED <<pin, pump_lock, hpc, dur, response, lockedAtCall, pendingAtCall>>
  /\ UNCHANGED <<envVars, frameVars, detectVars>>

\* activate_pump, lines 211-216: the pin is driven to its inactive level and
\* "return True" drops a pending exception.  After GPIO.cleanup() GPIO.output
\* raises and the exception leaves the with block.
Deassert(r) ==
  /\ app = "raspi"
  /\ tpc[r] = "finally"
  /\ pin' = IF pin = "INPUT" THEN pin ELSE InactiveLevel
  /\ tpc' = [tpc EXCEPT ![r] = "release"]
  /\ completed' = IF pin = "INPUT" THEN completed ELSE completed + 1
  /\ UNCHANGED <<pump_lock, hpc, dur, response, lockedAtCall, pendingAtCall>>
  /\ UNCHANGED <<envVars, frameVars, detectVars>>

\* activate_pump, lines 220-222: the simulated hold ends; it returns True, or
\* the exception of time.sleep leaves the with block.
SimHoldEnd(r) ==
  /\ app = "raspi"
  /\ tpc[r] = "sim_hold"
  /\ tpc' = [tpc EXCEPT ![r] = "release"]
  /\ completed' = completed + 1
  /\ UNCHANGED <<pin, pump_lock, hpc, dur, response, lockedAtCall, pendingAtCall>>
  /\ UNCHANGED <<envVars, frameVars, detectVars>>

\* activate_pump, line 203: leaving the with block releases pump_lock.
Release(r) ==
  /\ app = "raspi"
  /\ tpc[r] = "release"
  /\ pump_lock' = IF pump_lock = r THEN 0 ELSE pump_lock
  /\ tpc' = [tpc EXCEPT ![r] = "done"]
  /\ UNCHANGED <<pin, hpc, dur, response, lockedAtCall, pendingAtCall, completed>>
  /\ UNCHANGED <<envVars, frameVars, detectVars>>

RaspiPump ==
  \E r \in Req :
    \/ SprayBadBody(r)
    \/ \E d \in Durations : Spray(r, d)
    \/ SprayReturn(r)
    \/ Acquire(r)
    \/ AssertPin(r)
    \/ HoldEnd(r)
    \/ Deassert(r)
    \/ SimHoldEnd(r)
    \/ Release(r)

(***************************************************************************)
(* The classifiers                                                         *)
(***************************************************************************)

\* raspi_smart_sprayer.py line 144 and lines 290-293: the severity levels.
SeverityName(n) ==
  CASE n = 0 -> "None"
    [] n = 1 -> "Low"
    [] n = 2 -> "Medium"
    [] OTHER -> "High"

Min(a, b) == IF a < b THEN a ELSE b

\* A variant of PlaceholderByCover with the upper breakpoints at 0.2 and 0.8.
PlaceholderByCover_Shifted(cover) ==
  IF cover < 30
    THEN [kind |-> "result", label |-> "Healthy", conf |-> 10000 - cover, sev |-> SeverityName(0), by |-> "placeholder"]
  ELSE IF cover < 2000
    THEN [kind |-> "result", label |-> "Possible Leaf Spot", conf |-> Min(9000, cover * 50), sev |-> SeverityName(1), by |-> "placeholder"]
  ELSE IF cover < 8000
    THEN [kind |-> "result", label |-> "Infected: Leaf Spot", conf |-> Min(9500, cover * 10), sev |-> SeverityName(2), by |-> "placeholder"]
  ELSE [kind |-> "result", label |-> "Severe Infection", conf |-> Min(9900, cover * 5), sev |-> SeverityName(3), by |-> "placeholder"]

\* A variant of PlaceholderByCover whose confidences are not capped by min().
PlaceholderByCover_NoCap(cover) ==
  IF cover < 30
    THEN [kind |-> "result", label |-> "Healthy", conf |-> 10000 - cover, sev |-> SeverityName(0), by |-> "placeholder"]
  ELSE IF cover < 200
    THEN [kind |-> "result", label |-> "Possible Leaf Spot", conf |-> cover * 50, sev |-> SeverityName(1), by |-> "placeholder"]
  ELSE IF cover < 800
    THEN [kind |-> "result", label |-> "Infected: Leaf Spot", conf |-> cover * 10, sev |-> SeverityName(2), by |-> "placeholder"]
  ELSE [kind |-> "result", label |-> "Severe Infection", conf |-> cover * 5, sev |-> SeverityName(3), by |-> "placeholder"]

\* raspi_smart_sprayer.py, placeholder_detector, lines 155-162, on the cover
\* computed in lines 148-154: cover and confidence in 1/10000 (0.003 is 30,
\* 0.02 is 200, 0.08 is 800; 0.9 is 9000).
PlaceholderByCover(cover) ==
  IF cover < 30
    THEN [kind |-> "result", label |-> "Healthy", conf |-> 10000 - cover, sev |-> SeverityName(0), by |-> "placeholder"]
  ELSE IF cover < 200
    THEN [kind |-> "result", label |-> "Possible Leaf Spot", conf |-> Min(9000, cover * 50), sev |-> SeverityName(1), by |-> "placeholder"]
  ELSE IF cover < 800
    THEN [kind |-> "result", label |-> "Infected: Leaf Spot", conf |-> Min(9500, cover * 10), sev |-> SeverityName(2), by |-> "placeholder"]
  ELSE [kind |-> "result", label |-> "Severe Infection", conf |-> Min(9900, cover * 5), sev |-> SeverityName(3), by |-> "placeholder"]

\* raspi_smart_sprayer.py, placeholder_detector, lines 146-162.
placeholder_detector(f) == PlaceholderByCover(FrameCover[f])

CLASS_NAMES == <<"Healthy", "Disease_A", "Disease_B", "Disease_C">>

\* raspi_smart_sprayer.py, keras_detector, line 185.
KerasLabel(idx) == IF idx < Len(CLASS_NAMES) THEN CLASS_NAMES[idx + 1] ELSE "Class"

\* raspi_smart_sprayer.py, keras_detector, lines 187-195: the severity of a
\* label and its confidence.
KerasSeverity(label, confidence) ==
  IF label = "Healthy"
    THEN (IF confidence > 6000 THEN 0 ELSE 1)
    ELSE IF confidence < 5000 THEN 1
    ELSE IF confidence < 8000 THEN 2
    ELSE 3

\* raspi_smart_sprayer.py, keras_detector, lines 183-196, on the model's
\* prediction for the frame.
keras_detector(f) ==
  LET label == KerasLabel(FrameClass[f])
      confidence == FrameProb[f]
  IN [kind |-> "result", label |-> label, conf |-> confidence,
      sev |-> SeverityName(KerasSeverity(label, confidence)), by |-> "keras"]

\* cc.py, PLANT_MODELS[plant]["classes"]: the first class of every plant is
\* "Healthy"; the others are diseases.
PlantClasses(plant) ==
  CASE plant = "wheat" -> <<"Healthy", "Rust", "Blight">>
    [] plant = "rice" -> <<"Healthy", "Brown Spot", "Leaf Blast">>
    [] OTHER -> <<"Healthy", "Wilt", "Leaf Curl">>

\* cc.py, load_plant_model: a model for a key of PLANT_MODELS whose file
\* loads (models_cache only remembers the outcome), None otherwise.
load_plant_model(plant) == plant \in PLANT_MODELS /\ keras_model

\* cc.py, analyze_frame, lines 304-311: the severity of a label and its
\* confidence.
AnalyzeSeverity(label, confidence) ==
  IF label # "Healthy"
    THEN (IF confidence > 8000 THEN "High"
          ELSE IF confidence > 5000 THEN "Medium"
          ELSE "Low")
    ELSE "None"

\* cc.py, analyze_frame, lines 294-314.
analyze_frame(f, plant) ==
  IF load_plant_model(plant)
    THEN LET confidence == FrameProb[f]
             label == PlantClasses(plant)[FrameClass[f] + 1]
         IN [kind |-> "result", label |-> label, conf |-> confidence,
             sev |-> AnalyzeSeverity(label, confidence), by |-> "model"]
    ELSE [kind |-> "result", label |-> "Mock: Possible infection detected", conf |-> 0, sev |-> "Medium", by |-> "mock"]

\* The answer of a detect request that finds no frame: the 503 no_frame of
\* raspi_smart_sprayer.py line 339, "No frame available" of cc.py line 361.
NoFrameAnswer(severity) ==
  [kind |-> "no_frame", label |-> "", conf |-> 0, sev |-> severity, by |-> ""]

(***************************************************************************)
(* raspi_smart_sprayer.py: CameraThread and /detect                        *)
(***************************************************************************)

\* A variant of CamOpen that ends the process when the source does not open.
CamOpen_Fatal(opened) ==
  /\ app = "raspi"
  /\ cam = "open"
  /\ cam' = IF opened THEN "read" ELSE "dead"
  /\ video' = IF opened THEN "open" ELSE "failed"
  /\ shut' = IF opened THEN shut ELSE "exited"
  /\ UNCHANGED <<running, camFrame, latest_frame, current_frame>>
  /\ UNCHANGED <<app, gpio, keras_model, classifyVars, readerVars, pumpVars, detectVars>>

\* CameraThread.run, lines 80-87: the loop starts only if the source opened.
CamOpen(opened) ==
  /\ app = "raspi"
  /\ cam = "open"
  /\ cam' = IF opened THEN "read" ELSE "dead"
  /\ video' = IF opened THEN "open" ELSE "failed"
  /\ UNCHANGED <<running, camFrame, latest_frame, current_frame>>
  /\ UNCHANGED <<envVars, pumpVars, detectVars>>

\* CameraThread.run, lines 89-91: while running, cap.read() delivers a frame.
CamRead(f) ==
  /\ app = "raspi"
  /\ cam = "read"
  /\ running
  /\ cam' = "publish"
  /\ camFrame' = f
  /\ UNCHANGED <<running, video, latest_frame, current_frame>>
  /\ UNCHANGED <<envVars, pumpVars, detectVars>>

\* CameraThread.run, lines 89-92: while running, cap.read() fails.
CamReadFail ==
  /\ app = "raspi"
  /\ cam = "read"
  /\ running
  /\ cam' = "backoff"
  /\ UNCHANGED <<running, video, camFrame, latest_frame, current_frame>>
  /\ UNCHANGED <<envVars, pumpVars, detectVars>>

\* CameraThread.run, lines 92-93: after time.sleep(0.1) the loop continues.
CamBackoff ==
  /\ app = "raspi"
  /\ cam = "backoff"
  /\ cam' = "read"
  /\ UNCHANGED <<running, video, camFrame, latest_frame, current_frame>>
  /\ UNCHANGED <<envVars, pumpVars, detectVars>>

\* CameraThread.run, line 95: the camera thread takes frame_lock.
CamLock ==
  /\ app = "raspi"
  /\ cam = "publish"
  /\ frame_lock = 0
  /\ frame_lock' = CameraId
  /\ cam' = "locked"
  /\ UNCHANGED <<running, video, camFrame, latest_frame, current_frame>>
  /\ UNCHANGED <<app, gpio, keras_model, shut, classifyVars, gpc, gcopy, pumpVars, detectVars>>

\* CameraThread.run, lines 96-97: the copy of the frame becomes latest_frame,
\* the with block releases frame_lock; after time.sleep(0.02) the loop
\* continues.
CamPublish ==
  /\ app = "raspi"
  /\ cam = "locked"
  /\ latest_frame' = camFrame
  /\ camFrame' = NoFrame
  /\ frame_lock' = IF frame_lock = CameraId THEN 0 ELSE frame_lock
  /\ cam' = "read"
  /\ UNCHANGED <<running, video, current_frame>>
  /\ UNCHANGED <<app, gpio, keras_model, shut, classifyVars, gpc, gcopy, pumpVars, detectVars>>

\* CameraThread.get_frame, lines 99-103: a copy taken under frame_lock.
get_frame == latest_frame

\* A variant of DetectAnswer that classifies whatever get_frame returned.
DetectAnswer_NoCheck(frame, kerasRaises) ==
  LET g == IF frame = NoFrame THEN 1 ELSE frame IN
  IF keras_model /\ ~kerasRaises THEN keras_detector(g) ELSE placeholder_detector(g)

\* A variant of DetectAnswer without the except clause: an exception of
\* keras_detector becomes an error answer.
DetectAnswer_NoExcept(frame, kerasRaises) ==
  IF frame = NoFrame THEN NoFrameAnswer("")
  ELSE IF keras_model /\ kerasRaises
    THEN [kind |-> "error", label |-> "", conf |-> 0, sev |-> "", by |-> "keras"]
  ELSE IF keras_model THEN keras_detector(frame)
  ELSE placeholder_detector(frame)

\* detect, lines 337-352: the answer for the frame get_frame returned.
DetectAnswer(frame, kerasRaises) ==
  IF frame = NoFrame THEN NoFrameAnswer("")
  ELSE IF keras_model /\ ~kerasRaises THEN keras_detector(frame)
  ELSE placeholder_detector(frame)

\* detect, lines 334-352.  Nothing but the answer is produced: the script
\* keeps no detection result.
Detect(kerasRaises) ==
  /\ app = "raspi"
  /\ shut = "up"
  /\ frame_lock = 0
  /\ lastDetect' = DetectAnswer(get_frame, kerasRaises)
  /\ UNCHANGED analysis_result
  /\ UNCHANGED <<envVars, pumpVars, frameVars>>

\* CameraThread.run, line 89: with running false the loop ends and run
\* returns; the capture handle is not released.
CamExit ==
  /\ app = "raspi"
  /\ cam = "read"
  /\ ~running
  /\ cam' = "exited"
  /\ UNCHANGED <<running, video, camFrame, latest_frame, current_frame>>
  /\ UNCHANGED <<envVars, pumpVars, detectVars>>

\* A variant of GetFrameLock that enters get_frame without taking frame_lock.
GetFrameLock_NoLock(k) ==
  /\ app = "raspi"
  /\ shut = "up"
  /\ gpc[k] = "idle"
  /\ gpc' = [gpc EXCEPT ![k] = "check"]
  /\ UNCHANGED <<frame_lock, gcopy>>
  /\ UNCHANGED <<app, gpio, keras_model, shut, classifyVars, pumpVars, frameVars, detectVars>>

\* A variant of GetFrameLock that first waits until no pump drive holds
\* pump_lock.
GetFrameLock_AfterPump(k) ==
  /\ app = "raspi"
  /\ shut = "up"
  /\ gpc[k] = "idle"
  /\ pump_lock = 0
  /\ frame_lock = 0
  /\ frame_lock' = k
  /\ gpc' = [gpc EXCEPT ![k] = "check"]
  /\ UNCHANGED gcopy
  /\ UNCHANGED <<app, gpio, keras_model, shut, classifyVars, pumpVars, frameVars, detectVars>>

\* CameraThread.get_frame, line 100: the caller takes frame_lock.
GetFrameLock(k) ==
  /\ app = "raspi"
  /\ shut = "up"
  /\ gpc[k] = "idle"
  /\ frame_lock = 0
  /\ frame_lock' = k
  /\ gpc' = [gpc EXCEPT ![k] = "check"]
  /\ UNCHANGED gcopy
  /\ UNCHANGED <<app, gpio, keras_model, shut, classifyVars, pumpVars, frameVars, detectVars>>

\* CameraThread.get_frame, lines 101-103: None is returned if latest_frame is
\* None; otherwise latest_frame.copy() starts (the first half of the array is
\* copied).
GetFrameCheck(k) ==
  /\ app = "raspi"
  /\ gpc[k] = "check"
  /\ IF latest_frame = NoFrame
       THEN /\ gcopy' = [gcopy EXCEPT ![k] = <<NoFrame, NoFrame>>]
            /\ gpc' = [gpc EXCEPT ![k] = "returned"]
            /\ frame_lock' = IF frame_lock = k THEN 0 ELSE frame_lock
       ELSE /\ gcopy' = [gcopy EXCEPT ![k] = <<latest_frame, NoFrame>>]
            /\ gpc' = [gpc EXCEPT ![k] = "copy"]
            /\ UNCHANGED frame_lock
  /\ UNCHANGED <<app, gpio, keras_model, shut, classifyVars, pumpVars, frameVars, detectVars>>

\* CameraThread.get_frame, line 103: latest_frame.copy() ends (the second
\* half is copied), the copy is returned and the with block releases
\* frame_lock.
GetFrameCopy(k) ==
  /\ app = "raspi"
  /\ gpc[k] = "copy"
  /\ gcopy' = [gcopy EXCEPT ![k] = <<gcopy[k][1], latest_frame>>]
  /\ gpc' = [gpc EXCEPT ![k] = "returned"]
  /\ frame_lock' = IF frame_lock = k THEN 0 ELSE frame_lock
  /\ UNCHANGED <<app, gpio, keras_model, shut, classifyVars, pumpVars, frameVars, detectVars>>

\* gen_mjpeg, lines 131-140, and detect, lines 337-339: the caller uses what
\* get_frame returned and is ready for its next call.
GetFrameUse(k) ==
  /\ app = "raspi"
  /\ gpc[k] = "returned"
  /\ gpc' = [gpc EXCEPT ![k] = "idle"]
  /\ gcopy' = [gcopy EXCEPT ![k] = <<NoFrame, NoFrame>>]
  /\ UNCHANGED frame_lock
  /\ UNCHANGED <<app, gpio, keras_model, shut, classifyVars, pumpVars, frameVars, detectVars>>

RaspiGetFrame ==
  \E k \in Callers :
    \/ GetFrameLock(k)
    \/ GetFrameCheck(k)
    \/ GetFrameCopy(k)
    \/ GetFrameUse(k)

RaspiCamera ==
  \/ \E opened \in BOOLEAN : CamOpen(opened)
  \/ \E f \in Frames : CamRead(f)
  \/ CamReadFail
  \/ CamBackoff
  \/ CamLock
  \/ CamPublish

RaspiDetect == \E kerasRaises \in BOOLEAN : Detect(kerasRaises)

(***************************************************************************)
(* cc.py, the plant-selecting sprayer: /video_feed, /check, /spray         *)
(***************************************************************************)

\* video_feed.gen, line 346: streaming client k calls camera.read().
StreamRead(k) ==
  /\ app = "smart"
  /\ shut = "up"
  /\ gpc[k] = "idle"
  /\ gpc' = [gpc EXCEPT ![k] = "reading"]
  /\ UNCHANGED <<frame_lock, gcopy>>
  /\ UNCHANGED <<app, gpio, keras_model, shut, classifyVars, pumpVars, frameVars, detectVars>>

\* video_feed.gen, lines 346-352: camera.read() of client k returns; a frame
\* that was read becomes current_frame and is sent, and the loop goes on.
StreamGen(k, ret, f) ==
  /\ app = "smart"
  /\ gpc[k] = "reading"
  /\ gpc' = [gpc EXCEPT ![k] = "idle"]
  /\ current_frame' = IF ret THEN f ELSE current_frame
  /\ UNCHANGED <<cam, running, video, camFrame, latest_frame>>
  /\ UNCHANGED <<frame_lock, gcopy>>
  /\ UNCHANGED <<app, gpio, keras_model, shut, classifyVars, pumpVars, detectVars>>

\* check, lines 359-362: the answer for the session's plant and the frame.
CheckAnswer(frame, plant) ==
  IF plant = "" \/ frame = NoFrame THEN NoFrameAnswer("None")
  ELSE analyze_frame(frame, plant)

\* check, lines 356-364: a result is stored in analysis_result and returned;
\* the no-frame answer is returned and nothing is stored.
Check(plant) ==
  /\ app = "smart"
  /\ LET answer == CheckAnswer(current_frame, plant) IN
       /\ lastDetect' = answer
       /\ analysis_result' = IF answer.kind = "result" THEN answer ELSE analysis_result
  /\ UNCHANGED <<envVars, pumpVars, frameVars>>

\* spray, lines 368-369: without an analysis result the handler returns.
SmartSprayCheck(r) ==
  /\ app = "smart"
  /\ Arrives(r)
  /\ IF analysis_result = NoResult
       THEN /\ hpc' = [hpc EXCEPT ![r] = "returned"]
            /\ response' = [response EXCEPT ![r] = "No analysis result yet"]
       ELSE /\ hpc' = [hpc EXCEPT ![r] = "gate"]
            /\ response' = response
  /\ UNCHANGED <<pin, pump_lock, tpc, dur, lockedAtCall, pendingAtCall, completed>>
  /\ UNCHANGED <<envVars, frameVars, detectVars>>

\* A variant of MayActuate that also lets Low through.
MayActuate_Low(severity) == severity \in {"Low", "Medium", "High"}

\* spray, line 371: the severities that start the pump.
MayActuate(severity) == severity \in {"Medium", "High"}

\* spray, lines 370-375: the severity stored now decides; the pump thread is
\* started, or the handler returns.
SmartSprayGate(r) ==
  /\ app = "smart"
  /\ hpc[r] = "gate"
  /\ IF MayActuate(analysis_result.sev)
       THEN /\ tpc' = [tpc EXCEPT ![r] = "start"]
            /\ hpc' = [hpc EXCEPT ![r] = "started"]
            /\ response' = response
       ELSE /\ tpc' = tpc
            /\ hpc' = [hpc EXCEPT ![r] = "returned"]
            /\ response' = [response EXCEPT ![r] = "Spray not needed."]
  /\ UNCHANGED <<pin, pump_lock, dur, lockedAtCall, pendingAtCall, completed>>
  /\ UNCHANGED <<envVars, frameVars, detectVars>>

\* spray, line 373.
SmartSprayReturn(r) ==
  /\ app = "smart"
  /\ hpc[r] = "started"
  /\ hpc' = [hpc EXCEPT ![r] = "returned"]
  /\ response' = [response EXCEPT ![r] = "Pump activated!"]
  /\ UNCHANGED <<pin, pump_lock, tpc, dur, lockedAtCall, pendingAtCall, completed>>
  /\ UNCHANGED <<envVars, frameVars, detectVars>>

\* trigger_pump, lines 317-318, or line 322 without RPi.GPIO, where the
\* thread only prints.
TriggerAssert(r) ==
  /\ app = "smart"
  /\ tpc[r] = "start"
  /\ IF gpio
       THEN pin' = ActiveLevel /\ tpc' = [tpc EXCEPT ![r] = "hold"]
       ELSE pin' = pin /\ tpc' = [tpc EXCEPT ![r] = "done"]
  /\ UNCHANGED <<pump_lock, hpc, dur, response, lockedAtCall, pendingAtCall, completed>>
  /\ UNCHANGED <<envVars, frameVars, detectVars>>

\* trigger_pump, line 319: time.sleep(PUMP_DEFAULT_DURATION) returns.
TriggerHoldEnd(r) ==
  /\ app = "smart"
  /\ tpc[r] = "hold"
  /\ tpc' = [tpc EXCEPT ![r] = "deassert"]
  /\ UNCHANGED <<pin, pump_lock, hpc, dur, response, lockedAtCall, pendingAtCall, completed>>
  /\ UNCHANGED <<envVars, frameVars, detectVars>>

\* trigger_pump, line 320.
TriggerDeassert(r) ==
  /\ app = "smart"
  /\ tpc[r] = "deassert"
  /\ pin' = InactiveLevel
  /\ tpc' = [tpc EXCEPT ![r] = "done"]
  /\ completed' = completed + 1
  /\ UNCHANGED <<pump_lock, hpc, dur, response, lockedAtCall, pendingAtCall>>
  /\ UNCHANGED <<envVars, frameVars, detectVars>>

SmartDetect ==
  \/ \E k \in Callers : StreamRead(k)
  \/ \E k \in Callers, ret \in BOOLEAN, f \in Frames : StreamGen(k, ret, f)
  \/ \E plant \in SessionPlants : Check(plant)

SmartPump ==
  \E r \in Req :
    \/ SmartSprayCheck(r)
    \/ SmartSprayGate(r)
    \/ SmartSprayReturn(r)
    \/ TriggerAssert(r)
    \/ TriggerHoldEnd(r)
    \/ TriggerDeassert(r)

(***************************************************************************)
(* cc.py, the motor car: /spray                                            *)
(***************************************************************************)

\* spray, line 143: GPIO.output(PUMP_PIN, True).
CarSprayAssert(r) ==
  /\ app = "car"
  /\ Arrives(r)
  /\ pin' = "HIGH"
  /\ hpc' = [hpc EXCEPT ![r] = "hold"]
  /\ UNCHANGED <<pump_lock, tpc, dur, response, lockedAtCall, pendingAtCall, completed>>
  /\ UNCHANGED <<envVars, frameVars, detectVars>>

\* spray, line 144: time.sleep(3) returns.
CarHoldEnd(r) ==
  /\ app = "car"
  /\ hpc[r] = "hold"
  /\ hpc' = [hpc EXCEPT ![r] = "deassert"]
  /\ UNCHANGED <<pin, pump_lock, tpc, dur, response, lockedAtCall, pendingAtCall, completed>>
  /\ UNCHANGED <<envVars, frameVars, detectVars>>

\* spray, line 145: GPIO.output(PUMP_PIN, False).  After GPIO.cleanup() it
\* raises and the request fails.
CarDeassert(r) ==
  /\ app = "car"
  /\ hpc[r] = "deassert"
  /\ IF pin = "INPUT"
       THEN /\ pin' = pin
            /\ hpc' = [hpc EXCEPT ![r] = "returned"]
            /\ response' = [response EXCEPT ![r] = "error"]
            /\ completed' = completed
       ELSE /\ pin' = "LOW"
            /\ hpc' = [hpc EXCEPT ![r] = "render"]
            /\ response' = response
            /\ completed' = completed + 1
  /\ UNCHANGED <<pump_lock, tpc, dur, lockedAtCall, pendingAtCall>>
  /\ UNCHANGED <<envVars, frameVars, detectVars>>

\* spray, line 146: the page is returned.
CarSprayReturn(r) ==
  /\ app = "car"
  /\ hpc[r] = "render"
  /\ hpc' = [hpc EXCEPT ![r] = "returned"]
  /\ response' = [response EXCEPT ![r] = "temp.html"]
  /\ UNCHANGED <<pin, pump_lock, tpc, dur, lockedAtCall, pendingAtCall, completed>>
  /\ UNCHANGED <<envVars, frameVars, detectVars>>

CarPump ==
  \E r \in Req :
    \/ CarSprayAssert(r)
    \/ CarHoldEnd(r)
    \/ CarDeassert(r)
    \/ CarSprayReturn(r)

\* generate_frames, line 62: streaming client k calls video_capture.read().
CarStreamRead(k) ==
  /\ app = "car"
  /\ shut = "up"
  /\ gpc[k] = "idle"
  /\ gpc' = [gpc EXCEPT ![k] = "reading"]
  /\ UNCHANGED <<frame_lock, gcopy>>
  /\ UNCHANGED <<app, gpio, keras_model, shut, classifyVars, pumpVars, frameVars, detectVars>>

\* generate_frames, lines 62-68: video_capture.read() of client k returns;
\* a frame that was read is encoded and sent, and the loop goes on.
CarStreamYield(k) ==
  /\ app = "car"
  /\ gpc[k] = "reading"
  /\ gpc' = [gpc EXCEPT ![k] = "idle"]
  /\ UNCHANGED <<frame_lock, gcopy>>
  /\ UNCHANGED <<app, gpio, keras_model, shut, classifyVars, pumpVars, frameVars, detectVars>>

CarStream ==
  \E k \in Callers :
    \/ CarStreamRead(k)
    \/ CarStreamYield(k)

(***************************************************************************)
(* Shutdown: the finally block of raspi_smart_sprayer.py, cleanup of cc.py *)
(***************************************************************************)

\* __main__, line 371: app.run has returned or raised; running = False.
ShutdownSignal ==
  /\ app = "raspi"
  /\ shut = "up"
  /\ shut' = "sleep"
  /\ running' = FALSE
  /\ UNCHANGED <<app, gpio, keras_model, classifyVars, readerVars>>
  /\ UNCHANGED <<cam, video, camFrame, latest_frame, current_frame>>
  /\ UNCHANGED <<pumpVars, detectVars>>

\* __main__, line 372: time.sleep(0.5) returns.
ShutdownSleep ==
  /\ app = "raspi"
  /\ shut = "sleep"
  /\ shut' = "cleanup"
  /\ UNCHANGED <<app, gpio, keras_model, classifyVars, readerVars>>
  /\ UNCHANGED <<pumpVars, frameVars, detectVars>>

\* __main__, lines 373-374: GPIO.cleanup() makes the pin an input again.
ShutdownCleanup ==
  /\ app = "raspi"
  /\ shut = "cleanup"
  /\ shut' = "exited"
  /\ pin' = IF gpio THEN "INPUT" ELSE pin
  /\ UNCHANGED <<app, gpio, keras_model, classifyVars, readerVars>>
  /\ UNCHANGED <<pump_lock, hpc, tpc, dur, response, lockedAtCall, pendingAtCall, completed>>
  /\ UNCHANGED <<frameVars, detectVars>>

RaspiShutdown == ShutdownSignal \/ ShutdownSleep \/ ShutdownCleanup

\* cc.py, lines 165-169 and 158-159: a KeyboardInterrupt ends app.run and
\* cleanup() begins by stopping the motor PWM.
CarInterrupt ==
  /\ app = "car"
  /\ shut = "up"
  /\ shut' = "cleanup_pin"
  /\ UNCHANGED <<app, gpio, keras_model, classifyVars, readerVars>>
  /\ UNCHANGED <<pumpVars, frameVars, detectVars>>

\* cleanup, line 160: GPIO.output(PUMP_PIN, False).
CarCleanupPin ==
  /\ app = "car"
  /\ shut = "cleanup_pin"
  /\ shut' = "cleanup_gpio"
  /\ pin' = "LOW"
  /\ UNCHANGED <<app, gpio, keras_model, classifyVars, readerVars>>
  /\ UNCHANGED <<pump_lock, hpc, tpc, dur, response, lockedAtCall, pendingAtCall, completed>>
  /\ UNCHANGED <<frameVars, detectVars>>

\* cleanup, line 161: GPIO.cleanup().
CarCleanupGpio ==
  /\ app = "car"
  /\ shut = "cleanup_gpio"
  /\ shut' = "release"
  /\ pin' = "INPUT"
  /\ UNCHANGED <<app, gpio, keras_model, classifyVars, readerVars>>
  /\ UNCHANGED <<pump_lock, hpc, tpc, dur, response, lockedAtCall, pendingAtCall, completed>>
  /\ UNCHANGED <<frameVars, detectVars>>

\* cleanup, line 162: video_capture.release().
CarCleanupRelease ==
  /\ app = "car"
  /\ shut = "release"
  /\ shut' = "exited"
  /\ video' = "released"
  /\ UNCHANGED <<app, gpio, keras_model, classifyVars, readerVars>>
  /\ UNCHANGED <<cam, running, camFrame, latest_frame, current_frame>>
  /\ UNCHANGED <<pumpVars, detectVars>>

CarCleanup == CarInterrupt \/ CarCleanupPin \/ CarCleanupGpio \/ CarCleanupRelease

(***************************************************************************)
(* Specifications                                                          *)
(***************************************************************************)

(***************************************************************************)
(* The classifiers on their own                                            *)
(***************************************************************************)

\* keras_detector, lines 183-195, and analyze_frame, lines 301-311, applied
\* to one prediction (class index and probability) of the model.
ClassifyModel ==
  /\ verdict.kind = "none"
  /\ verdict' = [verdict EXCEPT
                   !.kind = "model",
                   !.keras = SeverityName(KerasSeverity(KerasLabel(sample.idx), sample.conf)),
                   !.plant = AnalyzeSeverity(PlantClasses("wheat")[sample.idx + 1], sample.conf)]
  /\ UNCHANGED <<app, gpio, keras_model, shut, sample, readerVars, pumpVars, frameVars, detectVars>>

\* placeholder_detector, lines 155-162, applied to one cover fraction.
ClassifyHeuristic ==
  /\ verdict.kind = "none"
  /\ verdict' = [verdict EXCEPT !.kind = "heuristic", !.heur = PlaceholderByCover(sample.cover)]
  /\ UNCHANGED <<app, gpio, keras_model, shut, sample, readerVars, pumpVars, frameVars, detectVars>>

\* Next and Spec: the three scripts while app.run serves.

Next ==
  RaspiPump \/ RaspiCamera \/ RaspiDetect \/ SmartDetect \/ SmartPump \/ CarPump \/ CarStream



Spec == Init /\ [][Next]_vars

\* raspi_smart_sprayer.py, /spray and activate_pump alone.  They share no
\* variable with the camera thread and /detect, so the pump's part of every
\* run of the script is a run of SpecPump.
InitPump == Init /\ app = "raspi"

NextPump == RaspiPump

SpecPump == InitPump /\ [][NextPump]_vars

\* The frame and detection side of both sprayers, which no pump action
\* changes: the camera thread and /detect of raspi_smart_sprayer.py,
\* /video_feed and /check of cc.py.
InitDetect == Init /\ app \in {"raspi", "smart"}

NextDetect == RaspiCamera \/ RaspiDetect \/ SmartDetect

SpecDetect == InitDetect /\ [][NextDetect]_vars

\* Serving followed by shutdown, for the two scripts that have shutdown
\* code: the pump and the camera thread of raspi_smart_sprayer.py with its
\* finally block, /spray of the motor car with cleanup().
InitShutdown == Init /\ app \in {"raspi", "car"}

NextShutdown == RaspiPump \/ RaspiCamera \/ CamExit \/ RaspiShutdown \/ CarPump \/ CarCleanup

SpecShutdown == InitShutdown /\ [][NextShutdown]_vars

\* cc.py, the plant-selecting sprayer.
\* The classifiers applied to every sample, no script running.
InitClassify ==
  /\ app = "none"
  /\ sample \in Samples
  /\ InitBase
  /\ gpio
  /\ keras_model

NextClassify == ClassifyModel \/ ClassifyHeuristic

SpecClassify == InitClassify /\ [][NextClassify]_vars

\* raspi_smart_sprayer.py: the camera thread and the callers of get_frame.
InitFrames == Init /\ app = "raspi" /\ gpio /\ ~keras_model

NextFrames == RaspiCamera \/ RaspiGetFrame

SpecFrames == InitFrames /\ [][NextFrames]_vars

\* raspi_smart_sprayer.py: /spray, the pump threads and the shutdown of the
\* main thread.
NextPumpLife == RaspiPump \/ RaspiShutdown

SpecPumpLife == InitPump /\ [][NextPumpLife]_vars

\* raspi_smart_sprayer.py with RPi.GPIO: /spray and the pump threads, the
\* camera thread and the callers of get_frame, all at once.  What the locks
\* do depends neither on the frame read nor on the duration posted, so there
\* is one of each.
InitLocks == Init /\ app = "raspi" /\ gpio /\ ~keras_model

NextLocks ==
  \/ \E r \in Req :
       \/ Spray(r, 5)
       \/ SprayReturn(r)
       \/ Acquire(r)
       \/ AssertPin(r)
       \/ HoldEnd(r)
       \/ Deassert(r)
       \/ Release(r)
  \/ CamOpen(TRUE)
  \/ CamRead(1)
  \/ CamReadFail
  \/ CamBackoff
  \/ CamLock
  \/ CamPublish
  \/ RaspiGetFrame

SpecLocks == InitLocks /\ [][NextLocks]_vars

InitSmart == Init /\ app = "smart"

NextSmart == SmartDetect \/ SmartPump

SpecSmart == InitSmart /\ [][NextSmart]_vars

(***************************************************************************)
(* Properties                                                              *)
(***************************************************************************)

\* The pump thread of request r is between its assert and its deassert (with
\* RPi.GPIO missing: in the simulated hold).
InDrive(r) == tpc[r] \in {"hold", "finally", "sim_hold"}

\* The drive of request r has been asked for and is not over.
DrivePendingOrRunning(r) ==
  \/ tpc[r] \in {"wait_lock", "locked", "hold", "finally", "sim_hold", "start", "deassert"}
  \/ app = "car" /\ hpc[r] \in {"hold", "deassert"}

ActivatedCalls == {r \in Req : response[r] = "activated"}

\* C1: in raspi_smart_sprayer.py at most one pump thread is between its
\* assert and its deassert at any time, whatever the interleaving of the
\* /spray requests.
C1_OneDriveAtATime ==
  app = "raspi" => Cardinality({r \in Req : InDrive(r)}) <= 1

C1_Witness ==
  \E r, q \in Req : tpc[r] = "hold" /\ tpc[q] = "wait_lock" /\ pin = ActiveLevel

\* C2: of two /spray requests handled while pump_lock is free, the second
\* while the thread of the first still waits to drive, exactly one is
\* answered Activated and the other Refused.
C2_OneActivatedOneRefused ==
  \A r, q \in Req :
    ( /\ app = "raspi"
      /\ q \in pendingAtCall[r]
      /\ ~lockedAtCall[r] /\ ~lockedAtCall[q]
      /\ hpc[r] = "returned" /\ hpc[q] = "returned" )
    => \/ response[r] = "activated" /\ response[q] = "refused"
       \/ response[r] = "refused" /\ response[q] = "activated"

\* C3: a /spray request handled while pump_lock is held (a drive is in
\* progress) is refused and not queued: its thread never gets to drive.
C3_BusyRequestNeverDrives ==
  \A r \in Req :
    (app = "raspi" /\ lockedAtCall[r])
    => tpc[r] \notin {"locked", "hold", "finally", "sim_hold", "release", "done"}

\* C4: once activate_pump has returned, also after a hold that raised, the
\* thread no longer holds pump_lock, and the pin is at its inactive level
\* unless another thread is in its own drive.
C4_PinOffLockFreeAfterDrive ==
  \A r \in Req :
    (app = "raspi" /\ tpc[r] = "done")
    => /\ pump_lock # r
       /\ (pin = ActiveLevel => \E q \in Req \ {r} : InDrive(q))
       /\ ((\A q \in Req : tpc[q] \in {"none", "done"}) => (pin = InactiveLevel /\ pump_lock = 0))

C4_Witness ==
  \E r \in Req :
    /\ app = "raspi" /\ gpio
    /\ tpc[r] = "done" /\ SleepRaises(dur[r])
    /\ pin = InactiveLevel /\ pump_lock = 0

\* C5: in raspi_smart_sprayer.py the pump pin goes to its active level only
\* when the most recent detection result has severity Medium or High.
C5_AssertOnlyAfterMediumHigh ==
  [][ (app = "raspi" /\ pin # ActiveLevel /\ pin' = ActiveLevel)
      => (lastDetect.kind = "result" /\ lastDetect.sev \in {"Medium", "High"}) ]_vars

\* C6: the /spray handler of cc.py's sprayer starts the pump thread exactly
\* when the stored analysis_result has severity Medium or High; with no
\* result it answers "No analysis result yet", with None or Low "Spray not
\* needed."; it never changes the pin itself, and no thread starts otherwise.
C6_SprayIffMediumHigh ==
  [][ \A r \in Req :
        /\ ( /\ app = "smart"
             /\ hpc[r] \in {"none", "gate"}
             /\ hpc'[r] \in {"started", "returned"} )
           => /\ (tpc'[r] = "start")
                   <=> (analysis_result.kind = "result" /\ analysis_result.sev \in {"Medium", "High"})
              /\ (analysis_result.kind # "result") => response'[r] = "No analysis result yet"
              /\ (analysis_result.kind = "result" /\ analysis_result.sev \in {"None", "Low"})
                   => response'[r] = "Spray not needed."
              /\ pin' = pin
        /\ (app = "smart" /\ tpc[r] = "none" /\ tpc'[r] # "none")
           => (hpc[r] = "gate" /\ analysis_result.sev \in {"Medium", "High"})
        /\ (app = "smart" /\ response[r] = "none" /\ response'[r] = "Pump activated!")
           => tpc[r] # "none" ]_vars

C6_Witness ==
  /\ app = "smart"
  /\ response[1] = "Spray not needed."
  /\ tpc[2] = "start" /\ analysis_result.sev = "High" /\ pin = InactiveLevel

\* C7: as long as no frame has been published, every /detect and /check has
\* returned the no-frame answer, without a classifier having run, and no
\* detection result is stored.
C7_NoFrameNoResult ==
  ( \/ app = "raspi" /\ latest_frame = NoFrame
    \/ app = "smart" /\ current_frame = NoFrame )
  => /\ lastDetect.kind \in {"none", "no_frame"}
     /\ lastDetect.by = ""
     /\ analysis_result = NoResult

C7_Witness ==
  /\ app = "raspi" /\ latest_frame = NoFrame /\ cam = "publish"
  /\ lastDetect.kind = "no_frame"

\* C8: whenever the most recent detect request returned a classifier result,
\* the stored detection result is that result.
C8_StoredIsReturned ==
  lastDetect.kind = "result" => analysis_result = lastDetect

\* C9, as claimed: in every state where no drive is pending or in progress,
\* as many calls have returned Activated as drive sequences have completed
\* (stated for the runs that drive the pin).
C9_ActivatedEqualsCompleted ==
  (app = "raspi" /\ gpio /\ \A r \in Req : tpc[r] \in {"none", "done"})
  => Cardinality(ActivatedCalls) = completed

\* C9, amended: in every state where no drive is pending or in progress and
\* no /spray call is still being answered, the calls that returned Activated
\* are exactly those whose drive sequence has completed, one drive each.
C9_ActivatedEqualsCompletedWhenAnswered ==
  ( /\ app = "raspi"
    /\ \A r \in Req : tpc[r] \in {"none", "release", "done"}
    /\ \A r \in Req : hpc[r] \in {"none", "returned"} )
  => /\ Cardinality(ActivatedCalls) = completed
     /\ \A r \in Req : (response[r] = "activated") <=> (tpc[r] \in {"release", "done"})

C9_Witness ==
  /\ app = "raspi" /\ gpio
  /\ \A r \in Req : tpc[r] = "done" /\ response[r] = "activated"
  /\ completed = MaxReq

\* C11: once shutdown has stopped the capture loop (running is false) or
\* released the video source, the pump pin is not at its active level,
\* whatever drive is in flight.
C11_PinOffBeforeCaptureStops ==
  (~running \/ video = "released") => pin # ActiveLevel

\* C12: a /detect of raspi_smart_sprayer.py during which the loaded model
\* raises answers with the result of placeholder_detector for the frame it
\* read, never with an error.
C12_KerasFailureFallsBack ==
  [][ (Detect(TRUE) /\ keras_model /\ latest_frame # NoFrame)
      => /\ lastDetect'.kind = "result"
         /\ lastDetect'.by = "placeholder"
         /\ lastDetect' = placeholder_detector(latest_frame) ]_vars

C12_Witness ==
  /\ app = "raspi" /\ keras_model
  /\ lastDetect.kind = "result" /\ lastDetect.by = "placeholder"

\* C10: every /spray handler produces its answer while the drive it stands
\* for is still pending or in progress.
C10_AnswerBeforeDriveEnds ==
  [][ \A r \in Req :
        (response[r] = "none" /\ response'[r] \in {"activated", "Pump activated!", "temp.html"})
        => DrivePendingOrRunning(r) ]_vars
\* C13: for every label and confidence the model-backed mappings of
\* keras_detector and of analyze_frame give None or Low for a healthy label
\* and, for any other label, Low below 0.5, Medium from 0.5 and below 0.8,
\* High from 0.8.
C13_ModelSeverityByThresholds ==
  verdict.kind = "model" =>
    LET Rule(label, severity) ==
          IF label = "Healthy"
            THEN severity \in {"None", "Low"}
            ELSE severity = (IF sample.conf < 5000 THEN "Low"
                             ELSE IF sample.conf < 8000 THEN "Medium"
                             ELSE "High")
    IN /\ Rule(KerasLabel(sample.idx), verdict.keras)
       /\ Rule(PlantClasses("wheat")[sample.idx + 1], verdict.plant)

\* C14: the severity placeholder_detector gives is a non-decreasing function
\* of the cover fraction that reaches None, Low, Medium and High; 0.1 % gives
\* None, 9 % gives High, and equal cover gives equal severity.
C14_HeuristicSeverityMonotone ==
  verdict.kind = "heuristic" =>
    LET Rank(sev) == CASE sev = "None" -> 0 [] sev = "Low" -> 1
                       [] sev = "Medium" -> 2 [] OTHER -> 3
        got == verdict.heur.sev
    IN /\ \A c \in CoverValues :
            /\ c <= sample.cover => Rank(PlaceholderByCover(c).sev) <= Rank(got)
            /\ c >= sample.cover => Rank(PlaceholderByCover(c).sev) >= Rank(got)
            /\ c = sample.cover => PlaceholderByCover(c).sev = got
       /\ {PlaceholderByCover(c).sev : c \in CoverValues} = {"None", "Low", "Medium", "High"}
       /\ sample.cover = 10 => got = "None"
       /\ sample.cover = 900 => got = "High"

C14_Witness ==
  /\ verdict.kind = "heuristic"
  /\ sample.cover = 900
  /\ verdict.heur.sev = "High"

\* C15 (as claimed): for every cover fraction and every severity, None
\* included, the confidence of placeholder_detector lies in [0, 1], is
\* proportional to the cover and stays below 1.0.
C15_ConfidenceProportionalCapped ==
  verdict.kind = "heuristic" =>
    /\ verdict.heur.conf \in 0..10000
    /\ verdict.heur.conf < 10000
    /\ \A c \in CoverValues :
         LET other == PlaceholderByCover(c) IN
         (other.sev = verdict.heur.sev /\ other.conf < 9000 /\ verdict.heur.conf < 9000)
           => other.conf * sample.cover = verdict.heur.conf * c

\* C15 (amended): for Low, Medium and High the confidence lies in [0, 0.99],
\* is proportional to the cover below the cap of the level (0.9, 0.95, 0.99)
\* and never exceeds that cap; for None it is 1 - cover, within [0, 1].
C15_ConfidenceProportionalCappedWhenInfected ==
  verdict.kind = "heuristic" =>
    LET got == verdict.heur
        Cap(sev) == CASE sev = "Low" -> 9000 [] sev = "Medium" -> 9500 [] OTHER -> 9900
    IN IF got.sev = "None"
         THEN /\ got.conf = 10000 - sample.cover
              /\ got.conf \in 0..10000
         ELSE /\ got.conf \in 0..9900
              /\ got.conf <= Cap(got.sev)
              /\ \A c \in CoverValues :
                   LET other == PlaceholderByCover(c) IN
                   (other.sev = got.sev /\ other.conf < Cap(got.sev) /\ got.conf < Cap(got.sev))
                     => other.conf * sample.cover = got.conf * c

C15_Witness ==
  /\ verdict.kind = "heuristic"
  /\ sample.cover = 5000
  /\ verdict.heur.sev = "High"
  /\ verdict.heur.conf = 9900

\* C16: if the video source of raspi_smart_sprayer.py cannot be opened, the
\* process keeps serving, no frame is ever published, and every /detect
\* answers no_frame, never with a classifier result.
C16_OpenFailureKeepsServing ==
  (app = "raspi" /\ video = "failed") =>
    /\ shut = "up"
    /\ ENABLED RaspiDetect
    /\ cam = "dead"
    /\ camFrame = NoFrame
    /\ latest_frame = NoFrame
    /\ lastDetect.kind \in {"none", "no_frame"}

C16_Witness ==
  /\ app = "raspi"
  /\ video = "failed"
  /\ lastDetect.kind = "no_frame"

\* C17: in cc.py the drive sequences of concurrent /spray requests never
\* overlap: at most one request is between its assert of the pump pin and
\* its deassert.
C17_CcDrivesNeverOverlap ==
  app \in {"car", "smart"} =>
    Cardinality({r \in Req : \/ app = "car" /\ hpc[r] \in {"hold", "deassert"}
                             \/ app = "smart" /\ tpc[r] \in {"hold", "deassert"}}) <= 1

\* C18: in the smart sprayer of cc.py a /check for which no model is
\* available records a severity that permits actuation (Medium or High) only
\* if the content of the current frame is classified Medium or High.
C18_NoModelSeverityFromFrame ==
  [][ (/\ app = "smart"
       /\ analysis_result' # analysis_result
       /\ analysis_result'.by = "mock"
       /\ analysis_result'.sev \in {"Medium", "High"})
      => placeholder_detector(current_frame).sev \in {"Medium", "High"} ]_vars

C20_ReadsCompleteLatestFrame ==
  [][ /\ \A k \in Callers :
           (gpc[k] # "returned" /\ gpc'[k] = "returned")
             => gcopy'[k] = <<latest_frame, latest_frame>>
      /\ (cam = "locked" /\ cam' # "locked")
           => (latest_frame' = camFrame /\ latest_frame' # NoFrame) ]_vars

C20_Witness ==
  \E k \in Callers :
    /\ gpc[k] = "returned"
    /\ gcopy[k] = <<latest_frame, latest_frame>>
    /\ latest_frame # NoFrame
    /\ cam = "publish"
    /\ camFrame # latest_frame

\* C21: the capture loop of CameraThread.run does not end because of a failed
\* read (the read leaves latest_frame as it is and is retried after the
\* back-off); it ends only with running false, and when it has ended the
\* video source has been released.
C21_LoopEndsOnSignalAndReleases ==
  [][ /\ (cam = "read" /\ cam' = "backoff") => latest_frame' = latest_frame
      /\ (cam = "backoff" /\ cam' # "backoff") => cam' = "read"
      /\ (cam \in {"read", "backoff", "publish", "locked"}
          /\ cam' \notin {"read", "backoff", "publish", "locked"})
           => (cam' = "exited" /\ ~running)
      /\ (cam # "exited" /\ cam' = "exited") => video' = "released" ]_vars

\* C22: in raspi_smart_sprayer.py no caller of get_frame (detect, stream) and
\* no publish waits for a pump drive, and there is no deadlock: whoever waits
\* for a lock waits for a holder that can take its next step; frame_lock is
\* held only by a caller checking and copying latest_frame or by the camera
\* thread assigning it, and the holder of pump_lock never waits for
\* frame_lock.
C22_LocksNeverNest ==
  app = "raspi" =>
    /\ \A k \in Callers :
         /\ (gpc[k] = "idle" /\ frame_lock = 0) => ENABLED GetFrameLock(k)
         /\ gpc[k] = "check" => ENABLED GetFrameCheck(k)
         /\ gpc[k] = "copy" => ENABLED GetFrameCopy(k)
    /\ frame_lock \in Callers => gpc[frame_lock] \in {"check", "copy"}
    /\ frame_lock = CameraId => (cam = "locked" /\ ENABLED CamPublish)
    /\ (cam = "publish" /\ frame_lock = 0) => ENABLED CamLock
    /\ \A r \in Req :
         /\ (tpc[r] = "wait_lock" /\ pump_lock = 0) => ENABLED Acquire(r)
         /\ pump_lock = r =>
              ENABLED (AssertPin(r) \/ HoldEnd(r) \/ Deassert(r) \/ SimHoldEnd(r) \/ Release(r))

C22_Witness ==
  /\ app = "raspi"
  /\ pump_lock \in Req
  /\ tpc[pump_lock] = "hold"
  /\ \E r \in Req : tpc[r] = "wait_lock"
  /\ \E k \in Callers : gpc[k] = "returned" /\ gcopy[k][1] # NoFrame
  /\ \E k \in Callers : gpc[k] = "copy" /\ frame_lock = k

\* C23: only one execution context at a time reads from the video source:
\* never two streaming clients are in a read of the source together (in
\* raspi_smart_sprayer.py the camera thread is the only one that reads it).
C23_OneReaderOfVideoSource ==
  Cardinality({k \in Callers : gpc[k] = "reading"}) <= 1

====
